---- MODULE Spec2Model ----
(***************************************************************************)
(* The Datadog reporter of go-metrics-datadog (datadog.go): construction    *)
(* of a Reporter by New and its options, and the translation of a registry  *)
(* of metrics into statsd samples by Reporter.submit.                       *)
(*                                                                          *)
(* Strings are sequences of one-character strings.  float64 values are      *)
(* exact rationals [n |-> numerator, d |-> denominator] in lowest terms,    *)
(* so that unit conversions are arithmetic; the rounding of float64         *)
(* arithmetic is not modelled.  Counter values are non-negative and         *)
(* bounded, so v - l never leaves the int64 range.                          *)
(***************************************************************************)
EXTENDS Integers, Sequences, FiniteSets, TLC

VARIABLES
  pc,         \* "options": New is applying its options; "ready": New returned
              \* a reporter; "failed": New returned (nil, err)
  options,    \* the arguments of New
  optIdx,     \* index of the next option New applies
  r,          \* the Reporter: prefix, percentiles, p, tags, cn, ss
  registry,   \* the metrics.Registry: name -> metric
  sent,       \* history: the calls (Count and Gauge) the statsd client
              \*          received from the Flush just performed (from the
              \*          flushes, when flushers run concurrently); empty
              \*          once the registry is touched again
  dropped,    \* history: indices of sent whose send failed in the client
  ret,        \* what the last call of New or Flush returned
  last,       \* history: the last operation performed: "New", "Registry"
              \*          for any operation on the registry, "Flush", or
              \*          "FlushAgain" for a Flush that follows a Flush
  observed,   \* history: name -> count the last Flush read from the counter
              \*          now registered under it (-1: not flushed yet)
  left,       \* history: name -> a counter that a Flush had read was
              \*          unregistered from it
  sumDelta,   \* history: name -> sum of the count deltas sent under it
  flusher,    \* concurrent flushers: process -> position inside submit
  mapWriter,  \* the flusher inside the assignment r.ss[name] = v, or "none"
  crashed,    \* the Go runtime ended the process (concurrent map access)
  overlapped  \* history: some Flush began while another was running

vars == <<pc, options, optIdx, r, registry, sent, dropped, ret, last,
          observed, left, sumDelta, flusher, mapWriter, crashed, overlapped>>

(***************************************************************************)
(* Bounds                                                                   *)
(***************************************************************************)
MaxCount == 2          \* largest cumulative count of a counter
MaxPrefixLen == 2      \* longest prefix string given to WithPrefix
MaxOptions == 2        \* most options given to New
MaxFlushes == 2        \* most Flush calls of one concurrent flusher

(***************************************************************************)
(* Strings                                                                  *)
(***************************************************************************)
HasSuffixDot(v) == Len(v) > 0 /\ v[Len(v)] = "."

HasPrefix(s, pre) ==
  /\ Len(pre) <= Len(s)
  /\ SubSeq(s, 1, Len(pre)) = pre

DigitChar(k) == <<"0", "1", "2", "3", "4", "5", "6", "7", "8", "9">>[k + 1]

RECURSIVE Digits(_)
\* %d of a natural number
Digits(k) ==
  IF k < 10 THEN <<DigitChar(k)>>
  ELSE Append(Digits(k \div 10), DigitChar(k % 10))

(***************************************************************************)
(* float64 values as rationals                                              *)
(***************************************************************************)
RECURSIVE GCD(_, _)
GCD(a, b) == IF b = 0 THEN a ELSE GCD(b, a % b)

Abs(x) == IF x < 0 THEN -x ELSE x

Rat(num, den) ==
  LET g == GCD(Abs(num), den)
  IN  [n |-> num \div g, d |-> den \div g]

\* float64(x) of an int64 x
Float(x) == [n |-> x, d |-> 1]

\* int64(x) of a float64 x: Go truncates toward zero
Trunc(x) == IF x.n >= 0 THEN x.n \div x.d ELSE -((-x.n) \div x.d)

(***************************************************************************)
(* Percentiles.  A fraction is an integer in units of 1/100000, so the      *)
(* default 0.999 is 99900.                                                  *)
(***************************************************************************)
DefaultPercentiles == <<50000, 75000, 95000, 99000, 99900>>

\* the fractions snapshots are asked for; none lies half-way between two
\* hundredths of a percent
Fractions == {50000, 75000, 95000, 99000, 99900, 99904}

\* fmt.Sprintf(".pct-%.2f", p*100.0): p*100.0 is p/1000 percent, printed
\* rounded to two decimals
PercentileLabel(p) ==
  LET h == (p + 5) \div 10
  IN  <<".", "p", "c", "t", "-">> \o Digits(h \div 100) \o <<".">>
        \o <<DigitChar((h % 100) \div 10), DigitChar(h % 10)>>

(***************************************************************************)
(* The statsd client                                                        *)
(***************************************************************************)
NilClient == [kind |-> "nil", Namespace |-> <<>>]

\* a client the caller built, with a namespace of its own
CallerClient == [kind |-> "caller", Namespace |-> <<"o", ".">>]

\* statsd.NewBuffered when FlushLength > 1, statsd.New otherwise
DialClient(flushLength) ==
  [kind |-> IF flushLength > 1 THEN "buffered" ELSE "unbuffered",
   Namespace |-> <<>>]

(***************************************************************************)
(* Options of New                                                           *)
(***************************************************************************)
WithPrefix(rep, v) ==
  [rep EXCEPT !.prefix = IF ~HasSuffixDot(v) THEN v \o <<".">> ELSE v]

WithPercentilesKeepDefault(rep, v) ==
  IF v = <<>> THEN rep ELSE [rep EXCEPT !.percentiles = v]

WithPercentiles(rep, v) == [rep EXCEPT !.percentiles = v]

WithClient(rep, v) == [rep EXCEPT !.cn = v]

ApplyOption(rep, o) ==
  CASE o.opt = "WithPrefix" -> WithPrefix(rep, o.prefix)
    [] o.opt = "WithPercentiles" -> WithPercentiles(rep, o.percentiles)
    [] o.opt = "WithClient" -> WithClient(rep, o.cn)

\* make(map[string]int64)
EmptyMap == [n \in {} |-> 0]

\* r = &Reporter{...}
DefaultReporter ==
  [prefix |-> <<>>,
   percentiles |-> DefaultPercentiles,
   p |-> <<>>,
   tags |-> <<>>,
   cn |-> NilClient,
   ss |-> EmptyMap]

LabelsReversed(percentiles) ==
  [i \in 1..Len(percentiles) |->
     PercentileLabel(percentiles[Len(percentiles) + 1 - i])]

\* r.p[i] = fmt.Sprintf(".pct-%.2f", p*100.0) for i, p := range r.percentiles
Labels(percentiles) ==
  [i \in 1..Len(percentiles) |-> PercentileLabel(percentiles[i])]

\* New after its options: the label cache, the client, the namespace
Finish(rep, flushLength) ==
  LET r1 == IF Len(rep.percentiles) > 0
              THEN [rep EXCEPT !.p = Labels(rep.percentiles)]
              ELSE rep
      r2 == IF r1.cn.kind = "nil"
              THEN [r1 EXCEPT !.cn = DialClient(flushLength)]
              ELSE r1
  IN  [r2 EXCEPT !.cn.Namespace = r2.prefix]

RECURSIVE ApplyOptions(_, _, _)
ApplyOptions(rep, opts, i) ==
  IF i > Len(opts) THEN rep
  ELSE ApplyOptions(ApplyOption(rep, opts[i]), opts, i + 1)

\* New(options...) when the client could be built
NewReporter(opts, flushLength) ==
  Finish(ApplyOptions(DefaultReporter, opts, 1), flushLength)

(***************************************************************************)
(* The registry and its metrics                                             *)
(***************************************************************************)
NameFoo == <<"f", "o", "o">>
NameBar == <<"b", "a", "r">>
Names == {NameFoo, NameBar}

Kinds == {"Counter", "Gauge", "GaugeFloat64", "Histogram", "Meter", "Timer"}

NoMetric == [kind |-> "none"]

\* Histograms and timers hold a sample of the values recorded in them.
\* Samples here hold at most two values, so that every statistic of a
\* snapshot is rational.  Timer values are nanoseconds.
HistogramSamples == {<<>>, <<11, 1>>}
TimerSamples == {<<>>, <<1000000, 10000001>>}

SampleMax(s) ==
  IF s = <<>> THEN 0 ELSE CHOOSE v \in {s[i] : i \in DOMAIN s} :
                            \A i \in DOMAIN s : s[i] <= v

SampleMin(s) ==
  IF s = <<>> THEN 0 ELSE CHOOSE v \in {s[i] : i \in DOMAIN s} :
                            \A i \in DOMAIN s : v <= s[i]

RECURSIVE SampleSum(_, _)
SampleSum(s, i) == IF i > Len(s) THEN 0 ELSE s[i] + SampleSum(s, i + 1)

SampleMean(s) == IF s = <<>> THEN Float(0) ELSE Rat(SampleSum(s, 1), Len(s))

SampleStdDev(s) ==
  IF Len(s) < 2 THEN Float(0) ELSE Rat(SampleMax(s) - SampleMin(s), 2)

SampleVariance(s) ==
  LET sd == SampleStdDev(s) IN Rat(sd.n * sd.n, sd.d * sd.d)

\* the percentile at fraction f: the values sorted, position f*(size+1),
\* interpolated between the neighbours of that position
SamplePercentile(s, f) ==
  LET size == Len(s)
      pos == Rat(f * (size + 1), 100000)
      lower == IF Trunc(pos) = 1 /\ size = 2 THEN SampleMin(s) ELSE SampleMax(s)
      upper == SampleMax(s)
      frac == Rat(pos.n - Trunc(pos) * pos.d, pos.d)
  IN  IF size = 0 THEN Float(0)
      ELSE IF Trunc(pos) < 1 THEN Float(SampleMin(s))
      ELSE IF Trunc(pos) >= size THEN Float(SampleMax(s))
      ELSE Rat(lower * frac.d + frac.n * (upper - lower), frac.d)

\* metric.Snapshot() of a histogram
HistogramSnapshot(s) ==
  [count |-> Len(s), max |-> SampleMax(s), min |-> SampleMin(s),
   mean |-> SampleMean(s), stddev |-> SampleStdDev(s),
   var |-> SampleVariance(s),
   pv |-> [f \in Fractions |-> SamplePercentile(s, f)]]

\* metric.Snapshot() of a timer, without the variance, which submit does
\* not read
TimerSnapshot(s) ==
  [count |-> Len(s), max |-> SampleMax(s), min |-> SampleMin(s),
   mean |-> SampleMean(s), stddev |-> SampleStdDev(s),
   pv |-> [f \in Fractions |-> SamplePercentile(s, f)]]

\* a meter nothing was marked in, and one marked ten times in three seconds
MeterSnapshots ==
  {[count |-> 0, rate1 |-> Float(0), rate5 |-> Float(0), rate15 |-> Float(0),
    rateMean |-> Float(0)],
   [count |-> 10, rate1 |-> Rat(1, 2), rate5 |-> Rat(1, 4),
    rate15 |-> Rat(1, 8), rateMean |-> Rat(10, 3)]}

GaugeValues == {0, 100}
GaugeFloat64Values == {Float(0), Rat(5555, 100)}

\* the values a metric of a kind can hold
DataOf(kind) ==
  CASE kind = "Counter" -> 0..MaxCount
    [] kind = "Gauge" -> GaugeValues
    [] kind = "GaugeFloat64" -> GaugeFloat64Values
    [] kind = "Histogram" -> HistogramSamples
    [] kind = "Meter" -> MeterSnapshots
    [] kind = "Timer" -> TimerSamples

\* what a new metric of a kind holds
Empty(kind) ==
  CASE kind \in {"Counter", "Gauge"} -> 0
    [] kind = "GaugeFloat64" -> Float(0)
    [] kind \in {"Histogram", "Timer"} -> <<>>
    [] kind = "Meter" ->
         [count |-> 0, rate1 |-> Float(0), rate5 |-> Float(0),
          rate15 |-> Float(0), rateMean |-> Float(0)]

Metric(kind, data) == [kind |-> kind, data |-> data]

\* ms.Percentiles(ps)
Percentiles(snapshot, ps) == [i \in 1..Len(ps) |-> snapshot.pv[ps[i]]]

(***************************************************************************)
(* Calls of the statsd client.  The client puts its Namespace before the    *)
(* name it is given.                                                        *)
(***************************************************************************)
Count(cn, name, value, tags, rate) ==
  [name |-> cn.Namespace \o name, type |-> "c", value |-> Float(value),
   tags |-> tags, rate |-> rate]

Gauge(cn, name, value, tags, rate) ==
  [name |-> cn.Namespace \o name, type |-> "g", value |-> value,
   tags |-> tags, rate |-> rate]

Suffix(s) ==
  CASE s = "count" -> <<".", "c", "o", "u", "n", "t">>
    [] s = "max" -> <<".", "m", "a", "x">>
    [] s = "min" -> <<".", "m", "i", "n">>
    [] s = "mean" -> <<".", "m", "e", "a", "n">>
    [] s = "stddev" -> <<".", "s", "t", "d", "d", "e", "v">>
    [] s = "var" -> <<".", "v", "a", "r">>
    [] s = "rate1" -> <<".", "r", "a", "t", "e", "1">>
    [] s = "rate5" -> <<".", "r", "a", "t", "e", "5">>
    [] s = "rate15" -> <<".", "r", "a", "t", "e", "1", "5">>

BaselineZero(ss, name) == 0

\* r.ss[name]: a map yields 0 for a key it does not hold
Baseline(ss, name) == IF name \in DOMAIN ss THEN ss[name] ELSE 0

StoreAlone(ss, name, v) == [m \in {name} |-> v]

\* r.ss[name] = v
Store(ss, name, v) ==
  [m \in DOMAIN ss \cup {name} |-> IF m = name THEN v ELSE ss[m]]

\* time.Duration(x).Seconds()*1000 of a float64 x in nanoseconds: the
\* conversion to time.Duration is a conversion to int64
Millis(x) == Rat(Trunc(x), 1000000)

(***************************************************************************)
(* Reporter.submit: the callback given to r.registry.Each, one operator     *)
(* per case of its type switch.  Each yields the calls made on r.cn.        *)
(***************************************************************************)
CounterCallsCumulative(rep, name, v) ==
  <<Count(rep.cn, name, v, rep.tags, 1)>>

\* case metrics.Counter, the call of r.cn.Count
CounterCalls(rep, name, v) ==
  LET l == Baseline(rep.ss, name)
  IN  <<Count(rep.cn, name, v - l, rep.tags, 1)>>

CounterStoreNothing(rep, name, v) == rep.ss

\* case metrics.Counter, r.ss[name] = v
CounterStore(rep, name, v) == Store(rep.ss, name, v)

\* case metrics.Gauge
GaugeCalls(rep, name, value) ==
  <<Gauge(rep.cn, name, Float(value), rep.tags, 1)>>

\* case metrics.GaugeFloat64
GaugeFloat64Calls(rep, name, value) ==
  <<Gauge(rep.cn, name, value, rep.tags, 1)>>

\* for i, p := range r.p { r.cn.Gauge(name+p, values[i], r.tags, 1) }
PercentileCalls(rep, name, values) ==
  [i \in 1..Len(rep.p) |->
     Gauge(rep.cn, name \o rep.p[i], values[i], rep.tags, 1)]

\* case metrics.Histogram
HistogramCalls(rep, name, ms) ==
  <<Gauge(rep.cn, name \o Suffix("count"), Float(ms.count), rep.tags, 1),
    Gauge(rep.cn, name \o Suffix("max"), Float(ms.max), rep.tags, 1),
    Gauge(rep.cn, name \o Suffix("min"), Float(ms.min), rep.tags, 1),
    Gauge(rep.cn, name \o Suffix("mean"), ms.mean, rep.tags, 1),
    Gauge(rep.cn, name \o Suffix("stddev"), ms.stddev, rep.tags, 1),
    Gauge(rep.cn, name \o Suffix("var"), ms.var, rep.tags, 1)>>
  \o (IF Len(rep.percentiles) > 0
        THEN PercentileCalls(rep, name, Percentiles(ms, rep.percentiles))
        ELSE <<>>)

\* case metrics.Meter
MeterCalls(rep, name, ms) ==
  <<Gauge(rep.cn, name \o Suffix("count"), Float(ms.count), rep.tags, 1),
    Gauge(rep.cn, name \o Suffix("rate1"), ms.rate1, rep.tags, 1),
    Gauge(rep.cn, name \o Suffix("rate5"), ms.rate5, rep.tags, 1),
    Gauge(rep.cn, name \o Suffix("rate15"), ms.rate15, rep.tags, 1),
    Gauge(rep.cn, name \o Suffix("mean"), ms.rateMean, rep.tags, 1)>>

\* case metrics.Timer
TimerCalls(rep, name, ms) ==
  <<Gauge(rep.cn, name \o Suffix("count"), Float(ms.count), rep.tags, 1),
    Gauge(rep.cn, name \o Suffix("max"), Millis(Float(ms.max)), rep.tags, 1),
    Gauge(rep.cn, name \o Suffix("min"), Millis(Float(ms.min)), rep.tags, 1),
    Gauge(rep.cn, name \o Suffix("mean"), Millis(ms.mean), rep.tags, 1),
    Gauge(rep.cn, name \o Suffix("stddev"), Millis(ms.stddev), rep.tags, 1)>>
  \o (IF Len(rep.percentiles) > 0
        THEN LET values == Percentiles(ms, rep.percentiles)
             IN  PercentileCalls(rep, name,
                                 [i \in 1..Len(values) |-> Millis(values[i])])
        ELSE <<>>)

\* the callback on one entry of the registry: the calls it makes and the
\* baselines it leaves
Visit(rep, name, metric) ==
  CASE metric.kind = "Counter" ->
         [calls |-> CounterCalls(rep, name, metric.data),
          ss |-> CounterStore(rep, name, metric.data)]
    [] metric.kind = "Gauge" ->
         [calls |-> GaugeCalls(rep, name, metric.data), ss |-> rep.ss]
    [] metric.kind = "GaugeFloat64" ->
         [calls |-> GaugeFloat64Calls(rep, name, metric.data), ss |-> rep.ss]
    [] metric.kind = "Histogram" ->
         [calls |-> HistogramCalls(rep, name, HistogramSnapshot(metric.data)),
          ss |-> rep.ss]
    [] metric.kind = "Meter" ->
         [calls |-> MeterCalls(rep, name, metric.data), ss |-> rep.ss]
    [] metric.kind = "Timer" ->
         [calls |-> TimerCalls(rep, name, TimerSnapshot(metric.data)),
          ss |-> rep.ss]

RECURSIVE Each(_, _, _, _, _)
\* r.registry.Each(...), the registry handing its entries over in `order`
Each(rep, reg, order, i, calls) ==
  IF i > Len(order) THEN [ss |-> rep.ss, calls |-> calls]
  ELSE LET vis == Visit(rep, order[i], reg[order[i]])
       IN  Each([rep EXCEPT !.ss = vis.ss], reg, order, i + 1,
                calls \o vis.calls)

SubmitStopAtError(rep, reg, order, fails) ==
  LET e == Each(rep, reg, order, 1, <<>>)
      bad == fails \cap (1..Len(e.calls))
      first == CHOOSE k \in bad : \A j \in bad : k <= j
  IN  IF bad = {}
        THEN [ss |-> e.ss, calls |-> e.calls, errs |-> {}, ret |-> "nil"]
        ELSE [ss |-> e.ss, calls |-> SubSeq(e.calls, 1, first),
              errs |-> {first}, ret |-> "error"]

\* func (r *Reporter) submit() error; the sends numbered in `fails` fail
\* inside the client, and their errors are discarded
Submit(rep, reg, order, fails) ==
  LET e == Each(rep, reg, order, 1, <<>>)
  IN  [ss |-> e.ss, calls |-> e.calls,
       errs |-> fails \cap (1..Len(e.calls)), ret |-> "nil"]

(***************************************************************************)
(* What the registry and the client may do                                  *)
(***************************************************************************)
Registered(reg) == {n \in Names : reg[n].kind # "none"}

\* the orders in which Each can hand the entries over (a Go map's order)
Orders(reg) ==
  {o \in [1..Cardinality(Registered(reg)) -> Registered(reg)] :
     \A i, j \in DOMAIN o : i # j => o[i] # o[j]}

\* which of `total` sends fail: none, the first, the last, or all
FailPatterns(total) == {{}, {1} \cap (1..total), {total} \ {0}, 1..total}

RECURSIVE SumCounts(_, _, _)
\* sum of the values of the count-type calls from index i on made under a name
SumCounts(calls, name, i) ==
  IF i > Len(calls) THEN 0
  ELSE (IF calls[i].type = "c" /\ calls[i].name = name
          THEN calls[i].value.n ELSE 0)
       + SumCounts(calls, name, i + 1)

(***************************************************************************)
(* New, option by option                                                    *)
(***************************************************************************)
PrefixStrings ==
  UNION {[1..k -> {"s", "."}] : k \in 0..MaxPrefixLen}

PercentileLists == {<<>>, <<99900, 50000>>, <<99904, 99900>>}

NewOptions ==
  {[opt |-> "WithPrefix", prefix |-> v] : v \in PrefixStrings}
  \cup {[opt |-> "WithPercentiles", percentiles |-> v] : v \in PercentileLists}
  \cup {[opt |-> "WithClient", cn |-> v] : v \in {NilClient, CallerClient}}

OptionLists == UNION {[1..k -> NewOptions] : k \in 0..MaxOptions}

\* a flusher outside submit: `at` is its position, todo the entries Each
\* has still to hand over, v and l the locals of the Counter case
NoFlusher == [at |-> "idle", todo |-> <<>>, v |-> 0, l |-> 0, flushes |-> 0]

Flushers == {"driver", "caller"}

Idle ==
  /\ registry = [n \in Names |-> NoMetric]
  /\ sent = <<>>
  /\ dropped = {}
  /\ last = "New"
  /\ observed = [n \in Names |-> -1]
  /\ left = [n \in Names |-> FALSE]
  /\ sumDelta = [n \in Names |-> 0]
  /\ flusher = [f \in Flushers |-> NoFlusher]
  /\ mapWriter = "none"
  /\ crashed = FALSE
  /\ overlapped = FALSE

\* New is entered with its options
NewInit ==
  /\ pc = "options"
  /\ options \in OptionLists
  /\ optIdx = 1
  /\ r = DefaultReporter
  /\ ret = "none"
  /\ Idle

\* for _, opt := range options { opt(r) }
NewOption ==
  /\ pc = "options"
  /\ optIdx <= Len(options)
  /\ r' = ApplyOption(r, options[optIdx])
  /\ optIdx' = optIdx + 1
  /\ UNCHANGED <<pc, options, registry, sent, dropped, ret, last, observed,
                 left, sumDelta, flusher, mapWriter, crashed, overlapped>>

\* the rest of New, the client built (or given) and the namespace bound
NewReturns ==
  /\ pc = "options"
  /\ optIdx > Len(options)
  /\ \E flushLength \in {1, 32} :
       r' = Finish(r, flushLength)
  /\ pc' = "ready"
  /\ ret' = "nil"
  /\ UNCHANGED <<options, optIdx, registry, sent, dropped, last, observed,
                 left, sumDelta, flusher, mapWriter, crashed, overlapped>>

\* the rest of New when statsd.New or statsd.NewBuffered fails
NewFails ==
  /\ pc = "options"
  /\ optIdx > Len(options)
  /\ r.cn.kind = "nil"
  /\ pc' = "failed"
  /\ ret' = "error"
  /\ r' = [r EXCEPT !.p = IF Len(r.percentiles) > 0
                            THEN Labels(r.percentiles) ELSE r.p]
  /\ UNCHANGED <<options, optIdx, registry, sent, dropped, last, observed,
                 left, sumDelta, flusher, mapWriter, crashed, overlapped>>

NewNext == NewOption \/ NewReturns \/ NewFails

NewSpec == NewInit /\ [][NewNext]_vars

(***************************************************************************)
(* A reporter in use by one flusher                                         *)
(***************************************************************************)
WithPrefixOpt(v) == [opt |-> "WithPrefix", prefix |-> v]
WithPercentilesOpt(v) == [opt |-> "WithPercentiles", percentiles |-> v]

\* the reporters the flushes are checked on
ReporterOptions ==
  {<<>>,
   <<WithPercentilesOpt(<<>>)>>,
   <<WithPrefixOpt(<<"s">>), WithPercentilesOpt(<<99900, 50000>>)>>}

Init ==
  /\ pc = "ready"
  /\ options \in ReporterOptions
  /\ optIdx = Len(options) + 1
  /\ r = NewReporter(options, 32)
  /\ ret = "nil"
  /\ Idle

\* the names and kinds the application registers: one name for metrics of
\* every kind, which come and go, and one for a counter that stays
Registrations ==
  ({NameFoo} \X Kinds) \cup ({NameBar} \X {"Counter"})

Unregistrations == {NameFoo}

\* an operation on the registry ends the record of the last Flush
Touched ==
  /\ sent' = <<>>
  /\ dropped' = {}
  /\ last' = "Registry"

\* metrics.NewRegistered<Kind>(name, registry): a new, empty metric
Register(name, kind) ==
  /\ pc = "ready"
  /\ <<name, kind>> \in Registrations
  /\ registry[name].kind = "none"
  /\ registry' = [registry EXCEPT ![name] = Metric(kind, Empty(kind))]
  /\ observed' = [observed EXCEPT ![name] = -1]
  /\ Touched
  /\ UNCHANGED <<pc, options, optIdx, r, ret, left, sumDelta,
                 flusher, mapWriter, crashed, overlapped>>

\* registry.Unregister(name)
Unregister(name) ==
  /\ pc = "ready"
  /\ name \in Unregistrations
  /\ registry[name].kind # "none"
  /\ registry' = [registry EXCEPT ![name] = NoMetric]
  /\ observed' = [observed EXCEPT ![name] = -1]
  /\ left' = [left EXCEPT ![name] = @ \/ observed[name] # -1]
  /\ Touched
  /\ UNCHANGED <<pc, options, optIdx, r, ret, sumDelta,
                 flusher, mapWriter, crashed, overlapped>>

\* counter.Inc(1)
Inc(name) ==
  /\ pc = "ready"
  /\ registry[name].kind = "Counter"
  /\ registry[name].data < MaxCount
  /\ registry' = [registry EXCEPT ![name].data = @ + 1]
  /\ Touched
  /\ UNCHANGED <<pc, options, optIdx, r, ret, observed, left,
                 sumDelta, flusher, mapWriter, crashed, overlapped>>

\* counter.Clear()
Clear(name) ==
  /\ pc = "ready"
  /\ registry[name].kind = "Counter"
  /\ registry[name].data > 0
  /\ registry' = [registry EXCEPT ![name].data = 0]
  /\ Touched
  /\ UNCHANGED <<pc, options, optIdx, r, ret, observed, left,
                 sumDelta, flusher, mapWriter, crashed, overlapped>>

\* gauge.Update(v), histogram.Update(v), meter.Mark(n), timer.Update(d):
\* the metric comes to hold other data
Update(name) ==
  /\ pc = "ready"
  /\ registry[name].kind \in Kinds \ {"Counter"}
  /\ \E data \in DataOf(registry[name].kind) :
       /\ data # registry[name].data
       /\ registry' = [registry EXCEPT ![name].data = data]
  /\ Touched
  /\ UNCHANGED <<pc, options, optIdx, r, ret, observed, left,
                 sumDelta, flusher, mapWriter, crashed, overlapped>>

\* r.submit() by one flusher, start to end
Submitted(res) ==
  /\ r' = [r EXCEPT !.ss = res.ss]
  /\ sent' = res.calls
  /\ dropped' = res.errs
  /\ observed' = [n \in Names |->
                    IF registry[n].kind = "Counter"
                      THEN registry[n].data ELSE observed[n]]
  /\ sumDelta' = [n \in Names |->
                    sumDelta[n] + SumCounts(res.calls, r.cn.Namespace \o n, 1)]
  /\ last' = IF last \in {"Flush", "FlushAgain"} THEN "FlushAgain" ELSE "Flush"

\* func (r *Reporter) Flush() error
Flush ==
  /\ pc = "ready"
  /\ \E order \in Orders(registry) :
       \E fails \in FailPatterns(Len(Submit(r, registry, order, {}).calls)) :
         LET res == Submit(r, registry, order, fails)
         IN  /\ Submitted(res)
             /\ ret' = res.ret
  /\ UNCHANGED <<pc, options, optIdx, registry, left, flusher, mapWriter,
                 crashed, overlapped>>

Next ==
  \/ \E name \in Names, kind \in Kinds : Register(name, kind)
  \/ \E name \in Names : Unregister(name)
  \/ \E name \in Names : Inc(name)
  \/ \E name \in Names : Clear(name)
  \/ \E name \in Names : Update(name)
  \/ Flush

Spec == Init /\ [][Next]_vars

(***************************************************************************)
(* Claims about one flusher                                                 *)
(***************************************************************************)
WasFlush(l) == l \in {"Flush", "FlushAgain"}

\* the calls made for the metric registered under a name
CallsFor(calls, name) ==
  SelectSeq(calls, LAMBDA c : HasPrefix(c.name, r.cn.Namespace \o name))

WireName(name) == r.cn.Namespace \o name

CountCall(name, value) ==
  [name |-> WireName(name), type |-> "c", value |-> Float(value),
   tags |-> r.tags, rate |-> 1]

GaugeCall(name, value) ==
  [name |-> WireName(name), type |-> "g", value |-> value,
   tags |-> r.tags, rate |-> 1]

IsCounter(name) == registry[name].kind = "Counter"

\* C1: for a counter under a name that no flushed counter has left, every Flush
\* makes exactly one count-type call under the name, of the counter's count
\* less the count the previous Flush read from it (less 0 when no Flush
\* has read it): c1, then c2 - c1.
C1_CounterDelta ==
  [][WasFlush(last') =>
       \A n \in Names :
         (IsCounter(n) /\ ~left[n]) =>
           CallsFor(sent', n) =
             <<CountCall(n, registry[n].data
                              - (IF observed[n] = -1 THEN 0 ELSE observed[n]))>>
    ]_vars

\* a second Flush of a counter that went from 1 to 2 sent the delta 1
C1_Witness ==
  /\ last = "Flush"
  /\ ~left[NameFoo]
  /\ registry[NameFoo] = Metric("Counter", 2)
  /\ sumDelta[NameFoo] = 2
  /\ sent = <<CountCall(NameFoo, 1)>>

\* C2: a Flush that directly follows a Flush sends the delta 0 for every
\* counter and, for every other metric, the calls the first Flush made.
C2_FlushAgain ==
  [][last' = "FlushAgain" =>
       \A n \in Names :
         /\ IsCounter(n) => CallsFor(sent', n) = <<CountCall(n, 0)>>
         /\ registry[n].kind \notin {"Counter", "none"} =>
              CallsFor(sent', n) = CallsFor(sent, n)
    ]_vars

\* a histogram and a counter holding 2, flushed twice in a row
C2_Witness ==
  /\ last = "FlushAgain"
  /\ registry[NameFoo] = Metric("Histogram", <<11, 1>>)
  /\ registry[NameBar] = Metric("Counter", 2)
  /\ CallsFor(sent, NameBar) = <<CountCall(NameBar, 0)>>
  /\ Len(CallsFor(sent, NameFoo)) >= 6

RECURSIVE ConfiguredPercentiles(_, _)
\* the percentile list New was given: that of the last WithPercentiles
\* among the first i options, the default without one
ConfiguredPercentiles(opts, i) ==
  IF i = 0 THEN DefaultPercentiles
  ELSE IF opts[i].opt = "WithPercentiles" THEN opts[i].percentiles
  ELSE ConfiguredPercentiles(opts, i - 1)

IsPercentileName(name) ==
  \E i \in 1..Len(name) :
    i + 4 <= Len(name)
    /\ SubSeq(name, i, i + 4) = <<".", "p", "c", "t", "-">>

CallNames(calls) == [i \in 1..Len(calls) |-> calls[i].name]

\* C4: a reporter built with an empty percentile list never makes a
\* percentile call: a histogram gets its six fixed calls, a timer its five.
C4_NoPercentiles ==
  [][(WasFlush(last') /\ ConfiguredPercentiles(options, Len(options)) = <<>>) =>
       /\ \A i \in 1..Len(sent') : ~IsPercentileName(sent'[i].name)
       /\ \A n \in Names :
            /\ registry[n].kind = "Histogram" =>
                 CallNames(CallsFor(sent', n)) =
                   <<WireName(n \o Suffix("count")), WireName(n \o Suffix("max")),
                     WireName(n \o Suffix("min")), WireName(n \o Suffix("mean")),
                     WireName(n \o Suffix("stddev")),
                     WireName(n \o Suffix("var"))>>
            /\ registry[n].kind = "Timer" =>
                 CallNames(CallsFor(sent', n)) =
                   <<WireName(n \o Suffix("count")), WireName(n \o Suffix("max")),
                     WireName(n \o Suffix("min")), WireName(n \o Suffix("mean")),
                     WireName(n \o Suffix("stddev"))>>
    ]_vars

\* a timer that holds durations, flushed by a reporter without percentiles
C4_Witness ==
  /\ WasFlush(last)
  /\ ConfiguredPercentiles(options, Len(options)) = <<>>
  /\ registry[NameFoo] = Metric("Timer", <<1000000, 10000001>>)
  /\ Len(CallsFor(sent, NameFoo)) = 5

\* C5: what a Flush sends for a timer: .count as the raw count and .max,
\* .min, .mean, .stddev and every percentile as the snapshot's nanoseconds
\* divided by 1e6; no .var.
C5_TimerMillis ==
  [][WasFlush(last') =>
       \A n \in Names :
         registry[n].kind = "Timer" =>
           LET s == registry[n].data
               ps == r.percentiles
               ms(x) == Rat(x.n, x.d * 1000000)
           IN  CallsFor(sent', n) =
                 <<GaugeCall(n \o Suffix("count"), Float(Len(s))),
                   GaugeCall(n \o Suffix("max"), ms(Float(SampleMax(s)))),
                   GaugeCall(n \o Suffix("min"), ms(Float(SampleMin(s)))),
                   GaugeCall(n \o Suffix("mean"), ms(SampleMean(s))),
                   GaugeCall(n \o Suffix("stddev"), ms(SampleStdDev(s)))>>
                 \o [i \in 1..Len(ps) |->
                       GaugeCall(n \o PercentileLabel(ps[i]),
                                 ms(SamplePercentile(s, ps[i])))]
    ]_vars

\* the number of calls submit makes for a metric
CallCount(metric) ==
  CASE metric.kind \in {"Counter", "Gauge", "GaugeFloat64"} -> 1
    [] metric.kind = "Histogram" -> 6 + Len(r.percentiles)
    [] metric.kind = "Meter" -> 5
    [] metric.kind = "Timer" -> 5 + Len(r.percentiles)
    [] metric.kind = "none" -> 0

\* C7: whichever sends fail, a Flush makes every call of every registered
\* metric, stores the count of every counter it reads as its baseline, and
\* returns nil.
C7_FailuresIgnored ==
  [][WasFlush(last') =>
       /\ ret' = "nil"
       /\ Len(sent') = CallCount(registry[NameFoo]) + CallCount(registry[NameBar])
       /\ \A n \in Names :
            /\ Len(CallsFor(sent', n)) = CallCount(registry[n])
            /\ IsCounter(n) =>
                 n \in DOMAIN r'.ss /\ r'.ss[n] = registry[n].data
    ]_vars

\* the first send of a Flush failed; the calls for the histogram and for
\* the counter after it were all made, and the baseline stored
C7_Witness ==
  /\ WasFlush(last)
  /\ 1 \in dropped
  /\ ret = "nil"
  /\ registry[NameFoo].kind = "Histogram"
  /\ registry[NameBar] = Metric("Counter", 1)
  /\ Len(sent) = 12
  /\ sent[12] = CountCall(NameBar, 1)
  /\ r.ss[NameBar] = 1

\* C9: a baseline is never removed, and changes only in a Flush that reads
\* a counter under its name; and a baseline that a counter left behind
\* changes no later call: the first Flush of a counter registered later
\* under the name sends that counter's whole count.
C9_StaleBaselineHarmless ==
  [][/\ DOMAIN r.ss \subseteq DOMAIN r'.ss
     /\ \A n \in DOMAIN r.ss :
          r'.ss[n] # r.ss[n] => WasFlush(last') /\ IsCounter(n)
     /\ WasFlush(last') =>
          \A n \in Names :
            (IsCounter(n) /\ observed[n] = -1) =>
              CallsFor(sent', n) = <<CountCall(n, registry[n].data)>>
    ]_vars

\* C10: after a Flush, for a counter under a name that no flushed counter
\* has left, the baseline is the count the Flush read and equals the sum of
\* the deltas sent under the name; the baselines of names under which the
\* Flush read no counter, and the configuration, are as before.
C10_BaselineAccounting ==
  [][WasFlush(last') =>
       /\ \A n \in Names :
            (IsCounter(n) /\ ~left[n]) =>
              /\ n \in DOMAIN r'.ss
              /\ r'.ss[n] = registry[n].data
              /\ sumDelta'[n] = r'.ss[n]
       /\ \A n \in Names :
            ~IsCounter(n) =>
              /\ n \in DOMAIN r'.ss <=> n \in DOMAIN r.ss
              /\ Baseline(r'.ss, n) = Baseline(r.ss, n)
       /\ r'.prefix = r.prefix
       /\ r'.tags = r.tags
       /\ r'.percentiles = r.percentiles
       /\ r'.p = r.p
       /\ r'.cn = r.cn
    ]_vars

\* a Flush read the counter bar at 2 after an increment between flushes,
\* while the baseline 1 of the counter that left foo stayed
C10_Witness ==
  /\ WasFlush(last)
  /\ registry[NameFoo].kind = "Gauge"
  /\ NameFoo \in DOMAIN r.ss
  /\ r.ss[NameFoo] = 1
  /\ registry[NameBar] = Metric("Counter", 2)
  /\ r.ss[NameBar] = 2
  /\ sumDelta[NameBar] = 2
  /\ CallsFor(sent, NameBar) = <<CountCall(NameBar, 1)>>

(***************************************************************************)
(* New: the namespace                                                       *)
(***************************************************************************)
HasPrefixOption(opts) == \E i \in DOMAIN opts : opts[i].opt = "WithPrefix"

RECURSIVE ConfiguredPrefix(_, _)
\* the string of the last WithPrefix among the first i options
ConfiguredPrefix(opts, i) ==
  IF i = 0 THEN <<>>
  ELSE IF opts[i].opt = "WithPrefix" THEN opts[i].prefix
  ELSE ConfiguredPrefix(opts, i - 1)

\* C6: after New with WithPrefix(v), the client's namespace is empty when v
\* is empty, and otherwise v ended by one ".", appended only when v does
\* not end in "." already.
C6_Namespace ==
  (pc = "ready" /\ HasPrefixOption(options)) =>
    LET v == ConfiguredPrefix(options, Len(options))
    IN  r.cn.Namespace =
          IF v = <<>> THEN <<>>
          ELSE IF HasSuffixDot(v) THEN v
          ELSE v \o <<".">>

(***************************************************************************)
(* Concurrent flushers: FlushWithInterval's loop ("driver") and a caller    *)
(* of Flush ("caller") on one reporter.  submit advances one statement of   *)
(* the Counter case at a time; the assignment to the map r.ss takes two     *)
(* steps, since Go maps are not safe for concurrent use: an access that     *)
(* meets another flusher's assignment either ends the process (the          *)
(* runtime's "concurrent map" fatal error) or goes through.                 *)
(***************************************************************************)
ConcInit ==
  /\ pc = "ready"
  /\ options = <<>>
  /\ optIdx = 1
  /\ r = NewReporter(options, 32)
  /\ ret = "nil"
  /\ registry = [n \in Names |->
                   IF n = NameFoo THEN Metric("Counter", 0) ELSE NoMetric]
  /\ sent = <<>>
  /\ dropped = {}
  /\ last = "New"
  /\ observed = [n \in Names |-> -1]
  /\ left = [n \in Names |-> FALSE]
  /\ sumDelta = [n \in Names |-> 0]
  /\ flusher = [f \in Flushers |-> NoFlusher]
  /\ mapWriter = "none"
  /\ crashed = FALSE
  /\ overlapped = FALSE

\* Flush is called, or the driver's ticker fires: submit calls Each
FlushBegin(f) ==
  /\ ~crashed
  /\ flusher[f].at = "idle"
  /\ flusher[f].flushes < MaxFlushes
  /\ \E order \in Orders(registry) :
       flusher' = [flusher EXCEPT ![f].at = "each", ![f].todo = order,
                                  ![f].flushes = @ + 1]
  /\ overlapped' = (overlapped \/ \E g \in Flushers \ {f} : flusher[g].at # "idle")
  /\ UNCHANGED <<pc, options, optIdx, r, registry, sent, dropped, ret, last,
                 observed, left, sumDelta, mapWriter, crashed>>

\* the callback is entered for the next entry: v := metric.Count() for a
\* counter, every call of the case for another metric
VisitEntry(f) ==
  /\ ~crashed
  /\ flusher[f].at = "each"
  /\ flusher[f].todo # <<>>
  /\ LET name == Head(flusher[f].todo)
         metric == registry[name]
     IN  IF metric.kind = "Counter"
           THEN /\ flusher' = [flusher EXCEPT ![f].at = "base",
                                              ![f].v = metric.data]
                /\ UNCHANGED sent
           ELSE /\ flusher' = [flusher EXCEPT ![f].todo = Tail(@)]
                /\ sent' = sent \o Visit(r, name, metric).calls
  /\ UNCHANGED <<pc, options, optIdx, r, registry, dropped, ret, last,
                 observed, left, sumDelta, mapWriter, crashed, overlapped>>

\* l := r.ss[name]
ReadBaseline(f) ==
  /\ ~crashed
  /\ flusher[f].at = "base"
  /\ LET name == Head(flusher[f].todo)
     IN  IF mapWriter \notin {"none", f}
           THEN \/ /\ crashed' = TRUE
                   /\ UNCHANGED flusher
                \/ /\ \E l \in {Baseline(r.ss, name), flusher[mapWriter].v} :
                        flusher' = [flusher EXCEPT ![f].at = "send", ![f].l = l]
                   /\ UNCHANGED crashed
           ELSE /\ flusher' = [flusher EXCEPT ![f].at = "send",
                                              ![f].l = Baseline(r.ss, name)]
                /\ UNCHANGED crashed
  /\ UNCHANGED <<pc, options, optIdx, r, registry, sent, dropped, ret, last,
                 observed, left, sumDelta, mapWriter, overlapped>>

\* r.cn.Count(name, v-l, r.tags, 1)
SendDelta(f) ==
  /\ ~crashed
  /\ flusher[f].at = "send"
  /\ LET name == Head(flusher[f].todo)
         call == Count(r.cn, name, flusher[f].v - flusher[f].l, r.tags, 1)
     IN  /\ sent' = Append(sent, call)
         /\ sumDelta' = [sumDelta EXCEPT ![name] = @ + call.value.n]
  /\ flusher' = [flusher EXCEPT ![f].at = "store"]
  /\ UNCHANGED <<pc, options, optIdx, r, registry, dropped, ret, last,
                 observed, left, mapWriter, crashed, overlapped>>

\* r.ss[name] = v, the assignment entered
StoreBegin(f) ==
  /\ ~crashed
  /\ flusher[f].at = "store"
  /\ IF mapWriter # "none"
       THEN \/ /\ crashed' = TRUE
               /\ UNCHANGED <<flusher, mapWriter>>
            \/ /\ flusher' = [flusher EXCEPT ![f].at = "storing"]
               /\ mapWriter' = f
               /\ UNCHANGED crashed
       ELSE /\ flusher' = [flusher EXCEPT ![f].at = "storing"]
            /\ mapWriter' = f
            /\ UNCHANGED crashed
  /\ UNCHANGED <<pc, options, optIdx, r, registry, sent, dropped, ret, last,
                 observed, left, sumDelta, overlapped>>

\* r.ss[name] = v, the assignment done; the callback returns
StoreEnd(f) ==
  /\ ~crashed
  /\ flusher[f].at = "storing"
  /\ r' = [r EXCEPT !.ss = CounterStore(r, Head(flusher[f].todo), flusher[f].v)]
  /\ mapWriter' = IF mapWriter = f THEN "none" ELSE mapWriter
  /\ flusher' = [flusher EXCEPT ![f].at = "each", ![f].todo = Tail(@)]
  /\ UNCHANGED <<pc, options, optIdx, registry, sent, dropped, ret, last,
                 observed, left, sumDelta, crashed, overlapped>>

\* Each has handed every entry over: submit returns nil, to Flush's caller
\* or to the driver's loop, which drops it
FlushReturn(f) ==
  /\ ~crashed
  /\ flusher[f].at = "each"
  /\ flusher[f].todo = <<>>
  /\ flusher' = [flusher EXCEPT ![f].at = "idle"]
  /\ ret' = IF f = "caller" THEN "nil" ELSE ret
  /\ UNCHANGED <<pc, options, optIdx, r, registry, sent, dropped, last,
                 observed, left, sumDelta, mapWriter, crashed, overlapped>>

ConcNext ==
  \/ \E f \in Flushers :
       \/ FlushBegin(f)
       \/ VisitEntry(f)
       \/ ReadBaseline(f)
       \/ SendDelta(f)
       \/ StoreBegin(f)
       \/ StoreEnd(f)
       \/ FlushReturn(f)
  \/ \E name \in Names : ~crashed /\ Inc(name)

ConcSpec == ConcInit /\ [][ConcNext]_vars

\* C8: flushes that overlap can send, for one counter, deltas that sum to
\* more than its count; flushes that do not overlap, such as those of the
\* driver alone, never do.
C8_NoOverlapNoOvercount ==
  ~overlapped =>
    /\ ~crashed
    /\ \A n \in Names :
         IsCounter(n) => sumDelta[n] <= registry[n].data

\* both flushers read the baseline 0 of a counter at 1 and each sent 1
C8_Witness ==
  /\ overlapped
  /\ ~crashed
  /\ registry[NameFoo] = Metric("Counter", 1)
  /\ sumDelta[NameFoo] = 2
  /\ \A f \in Flushers : flusher[f].at = "idle" /\ flusher[f].flushes = 1

====
